---- MODULE Spec2Model ----
(***************************************************************************)
(* Model of the dex-pair-visualizer simulation core: the per-frame physics *)
(* step (src/src/lib/physics.ts), the radius mappings, and the page's      *)
(* event handler and organ initialiser that feed it, and the connection     *)
(* state of the stream route that sends the events.                        *)
(*                                                                         *)
(* Numbers.  The program computes with IEEE doubles.  Here every length,   *)
(* velocity, radius and phase is a fixed-point integer counted in units of *)
(* 0.01 (Scale units per 1.0), so the 0.01 epsilon the code adds to every  *)
(* distance is exactly one unit (EPS).  Products are divided last, with    *)
(* rounding to nearest (RDiv), and Math.sqrt is the nearest integer square *)
(* root.  Time deltas are integers counted in milliseconds.                *)
(***************************************************************************)
EXTENDS Integers, Sequences, FiniteSets, TLC

VARIABLES
    cells,        \* cellsRef.current: the ordered list of live cells
    organs,       \* organsRef.current: chain name -> organ
    frame,        \* number of completed stepPhysics calls
    lastOp,       \* the handler that ran last: "init", "resize", "event", "step"
    lastDt,       \* the dt (ms) the last stepPhysics call was given
    lastNoise,    \* the Math.random() results the last stepPhysics call drew
    grid,         \* the module-level SpatialGrid, as the last stepPhysics call left it
    now,          \* Date.now(), in ticks: it advances when a cell is born
    resizes,      \* number of window resize events handled
    radiusCalls,  \* <<liquidity, result>> of liquidityToRadius calls made
    multCalls,    \* <<volumeUsd, result>> of volumeToRadiusMultiplier calls made
    route         \* the connection of the stream route: the state of GET's start()

vars == <<cells, organs, grid, frame, lastOp, lastDt, lastNoise, now, resizes, radiusCalls,
          multCalls, route>>

----------------------------------------------------------------------------
(* Bounds of the model *)

MaxFrames == 2
MaxResizes == 1
MaxCalls == 2
MaxIdleFrames == 8
MaxFeedFrames == 3
MaxChunks == 3

----------------------------------------------------------------------------
(* Fixed-point arithmetic *)

Scale == 100
EPS == 1

Abs(a) == IF a < 0 THEN -a ELSE a
Min(a, b) == IF a < b THEN a ELSE b
Max(a, b) == IF a > b THEN a ELSE b

\* a / b rounded to the nearest integer (b > 0), symmetric about zero
RDiv(a, b) == IF a >= 0 THEN (a + b \div 2) \div b ELSE -((b \div 2 - a) \div b)

RECURSIVE SqrtIter(_, _)
SqrtIter(n, x) ==
    LET y == (x + n \div x) \div 2
    IN  IF y >= x THEN x ELSE SqrtIter(n, y)

\* Math.sqrt on a value whose square root is wanted in the same unit:
\* nearest integer to sqrt(n)
ISqrt(n) ==
    IF n < 2 THEN n
    ELSE LET r == SqrtIter(n, Min(n, 46340))
         IN  IF n - r * r > r THEN r + 1 ELSE r

\* Math.sqrt(dx * dx + dy * dy) for dx, dy in fixed-point units
Dist(dx, dy) == ISqrt(dx * dx + dy * dy)

----------------------------------------------------------------------------
(* Program constants (src/src/lib/constants.ts, src/src/lib/physics.ts).   *)
(* Whole numbers keep their source value; fractions are in hundredths.     *)

DAMPING == 88
BROWNIAN_STRENGTH == 3
MIN_CELL_RADIUS == 4
MAX_CELL_RADIUS == 20
DEFAULT_CELL_RADIUS == 7
ORGAN_BASE_RADIUS == 40
ORGAN_GROWTH_PER_CELL == 18
SPATIAL_CELL_SIZE == 100
MAX_CELLS_PER_CHAIN == 80
CELL_WOBBLE_FACTOR == 125
ORGAN_OUTER_FACTOR == 115
ORGAN_INNER_FACTOR == 85
DT_CAP == 33

----------------------------------------------------------------------------
(* RadiusMapping: liquidityToRadius and volumeToRadiusMultiplier.          *)
(* Their argument is a whole number of dollars; an absent (undefined)      *)
(* event field is the empty set, a present one the singleton {n}, and      *)
(* `field ?? 0` is OrZero.  Results are in fixed-point (hundredths).       *)

OrZero(opt) == IF opt = {} THEN 0 ELSE CHOOSE n \in opt : TRUE

LogScale == 1024
LogMantissa == 4096

RECURSIVE Pow10(_)
Pow10(k) == IF k = 0 THEN 1 ELSE 10 * Pow10(k - 1)

\* floor(log10(x)) for x >= 1
RECURSIVE Log10Floor(_)
Log10Floor(x) == IF x < 10 THEN 0 ELSE 1 + Log10Floor(x \div 10)

\* the first n binary digits of log10(y / LogMantissa), y / LogMantissa in [1, 10)
RECURSIVE Log10Bits(_, _, _)
Log10Bits(y, n, acc) ==
    IF n = 0 THEN acc
    ELSE LET y2 == (y * y) \div LogMantissa
         IN  IF y2 >= 10 * LogMantissa
             THEN Log10Bits(y2 \div 10, n - 1, 2 * acc + 1)
             ELSE Log10Bits(y2, n - 1, 2 * acc)

\* Math.log10(x) for a whole x >= 1, in units of 1 / LogScale: exact at the
\* powers of ten, a truncated binary expansion in between
Log10(x) ==
    LET k == Log10Floor(x)
        m == IF k >= 3 THEN ((x \div Pow10(k - 3)) * LogMantissa) \div 1000
                       ELSE (x * LogMantissa) \div Pow10(k)
    IN  k * LogScale + Log10Bits(m, 10, 0)

\* the mutant guards with `liquidity <= 100`: the default reaches into the scale
liquidityToRadius_guard100(liquidity) ==
    IF liquidity <= 100 THEN DEFAULT_CELL_RADIUS * Scale
    ELSE LET log == Log10(Max(liquidity, 1))
             normalized == log - 2 * LogScale
             clamped == Max(0, Min(5 * LogScale, normalized))
         IN  MIN_CELL_RADIUS * Scale
               + RDiv(clamped * (MAX_CELL_RADIUS - MIN_CELL_RADIUS) * Scale, 5 * LogScale)

\* the mutant forgets the upper clamp of the normalised logarithm
liquidityToRadius_unclamped(liquidity) ==
    IF liquidity <= 0 THEN DEFAULT_CELL_RADIUS * Scale
    ELSE LET log == Log10(Max(liquidity, 1))
             normalized == log - 2 * LogScale
             clamped == Max(0, normalized)
         IN  MIN_CELL_RADIUS * Scale
               + RDiv(clamped * (MAX_CELL_RADIUS - MIN_CELL_RADIUS) * Scale, 5 * LogScale)

liquidityToRadius(liquidity) ==
    IF liquidity <= 0 THEN DEFAULT_CELL_RADIUS * Scale
    ELSE LET log == Log10(Max(liquidity, 1))
             \* normalized and clamped are in units of 1 / (5 * LogScale)
             normalized == log - 2 * LogScale
             clamped == Max(0, Min(5 * LogScale, normalized))
         IN  MIN_CELL_RADIUS * Scale
               + RDiv(clamped * (MAX_CELL_RADIUS - MIN_CELL_RADIUS) * Scale, 5 * LogScale)

\* the mutant normalises against 10^7 instead of 10^6
volumeToRadiusMultiplier_late(volumeUsd) ==
    IF volumeUsd <= 0 THEN Scale
    ELSE LET log == Log10(Max(volumeUsd, 1))
             normalized == log - 3 * LogScale
             clamped == Max(0, Min(4 * LogScale, normalized))
         IN  Scale + RDiv(clamped * Scale, 4 * LogScale)

volumeToRadiusMultiplier(volumeUsd) ==
    IF volumeUsd <= 0 THEN Scale
    ELSE LET log == Log10(Max(volumeUsd, 1))
             \* normalized and clamped are in units of 1 / (3 * LogScale)
             normalized == log - 3 * LogScale
             clamped == Max(0, Min(3 * LogScale, normalized))
         IN  Scale + RDiv(clamped * Scale, 3 * LogScale)

----------------------------------------------------------------------------
(* Configuration: the first chains of CHAINS, in configuration order (the   *)
(* organ map iterates in this order, its insertion order).                 *)

CHAINS == <<"ETH_MAINNET", "BASE_MAINNET", "BSC_MAINNET">>

CHAIN_MAP == {CHAINS[i] : i \in 1..Len(CHAINS)}

----------------------------------------------------------------------------
(* OrganDynamics: the first half of stepPhysics *)

\* cappedDt * 60, in thousandths (dt in ms)
cappedDt_fullDt(dt) == dt
cappedDt(dt) == Min(dt, DT_CAP)

FrameFactor(dt) == cappedDt(dt) * 60

\* the number of cells whose chain is `chain`
CountCells(cs, chain) == Cardinality({i \in 1..Len(cs) : cs[i].chain = chain})

\* the mutant increments the cached count without resetting it first
RecountOrgans_stale(cs, os) ==
    [k \in DOMAIN os |-> [os[k] EXCEPT !.cellCount = os[k].cellCount + CountCells(cs, k)]]

\* organ.cellCount = 0 for every organ, then one increment per cell of a known chain
RecountOrgans(cs, os) ==
    [k \in DOMAIN os |-> [os[k] EXCEPT !.cellCount = CountCells(cs, k)]]

\* organ.radius = ORGAN_BASE_RADIUS + ORGAN_GROWTH_PER_CELL * Math.sqrt(organ.cellCount)
OrganRadius(cellCount) ==
    ORGAN_BASE_RADIUS * Scale + ORGAN_GROWTH_PER_CELL * ISqrt(cellCount * Scale * Scale)

UpdateRadii(os) ==
    [k \in DOMAIN os |-> [os[k] EXCEPT !.radius = OrganRadius(os[k].cellCount)]]

RECURSIVE SumField(_, _, _)
SumField(os, f, i) ==
    IF i > Len(CHAINS) THEN 0
    ELSE (IF f = "x" THEN os[CHAINS[i]].x ELSE os[CHAINS[i]].y) + SumField(os, f, i + 1)

\* the centroid of the organ centres
Centroid(os) ==
    [x |-> RDiv(SumField(os, "x", 1), Len(CHAINS)),
     y |-> RDiv(SumField(os, "y", 1), Len(CHAINS))]

\* one organ pulled toward the centroid c: by 2% of its distance, at most `pull`
PullOrgan(o, c, dt) ==
    LET dx == c.x - o.x
        dy == c.y - o.y
        dist == Dist(dx, dy) + EPS
        pull == RDiv(40 * FrameFactor(dt), 1000)
        amount == Min(RDiv(dist * 2, 100), pull)
    IN  [o EXCEPT !.x = o.x + RDiv(dx * amount, dist),
                  !.y = o.y + RDiv(dy * amount, dist)]

Gravity(os, dt) ==
    LET c == Centroid(os)
    IN  [k \in DOMAIN os |-> PullOrgan(os[k], c, dt)]

\* minDist of an organ pair
OrganMinDist(a, b) ==
    RDiv(a.radius * ORGAN_OUTER_FACTOR, 100) + RDiv(b.radius * ORGAN_OUTER_FACTOR, 100)
      + 8 * Scale

\* the mutant pushes each organ by a quarter of the overlap instead of half
RepelOrganPair_weak(os, ka, kb) ==
    LET a == os[ka]
        b == os[kb]
        dx == a.x - b.x
        dy == a.y - b.y
        dist == Dist(dx, dy) + EPS
        minDist == OrganMinDist(a, b)
        overlap == minDist - dist
        px == RDiv(dx * overlap, 4 * dist)
        py == RDiv(dy * overlap, 4 * dist)
    IN  IF dist < minDist
        THEN [os EXCEPT ![ka] = [a EXCEPT !.x = a.x + px, !.y = a.y + py],
                        ![kb] = [b EXCEPT !.x = b.x - px, !.y = b.y - py]]
        ELSE os

\* one pair of the organ-organ repulsion: both pushed apart by half the overlap
\* along (dx, dy) / dist
RepelOrganPair(os, ka, kb) ==
    LET a == os[ka]
        b == os[kb]
        dx == a.x - b.x
        dy == a.y - b.y
        dist == Dist(dx, dy) + EPS
        minDist == OrganMinDist(a, b)
        overlap == minDist - dist
        px == RDiv(dx * overlap, 2 * dist)
        py == RDiv(dy * overlap, 2 * dist)
    IN  IF dist < minDist
        THEN [os EXCEPT ![ka] = [a EXCEPT !.x = a.x + px, !.y = a.y + py],
                        ![kb] = [b EXCEPT !.x = b.x - px, !.y = b.y - py]]
        ELSE os

\* the double loop over i < j, in order, each pair seeing the earlier pushes
RECURSIVE RepelOrgans(_, _, _)
RepelOrgans(os, i, j) ==
    IF i >= Len(CHAINS) THEN os
    ELSE IF j > Len(CHAINS) THEN RepelOrgans(os, i + 1, i + 2)
    ELSE RepelOrgans(RepelOrganPair(os, CHAINS[i], CHAINS[j]), i, j + 1)

\* recount, radii, gravity and organ-organ repulsion
StepOrgans(cs, os, dt) ==
    RepelOrgans(Gravity(UpdateRadii(RecountOrgans(cs, os)), dt), 1, 2)

----------------------------------------------------------------------------
(* SpatialGrid.  The grid is the sequence of its entries in insertion      *)
(* order, each the id of the inserted cell and the bucket key it had when   *)
(* inserted: the bucket of a key holds the entries with that key, in        *)
(* insertion order.  An entry refers to the cell object, so its fields are  *)
(* read from the cell list as it is when the entry is used.                 *)

key(x, y) == <<x \div (SPATIAL_CELL_SIZE * Scale), y \div (SPATIAL_CELL_SIZE * Scale)>>

clear(g) == <<>>

\* the entry insert(cell) adds
Entry(c) == [id |-> c.id, k |-> key(c.x, c.y)]

\* `for (const cell of cells) grid.insert(cell)`: one entry per cell, in list order
InsertAll(g, cs) == g \o [i \in 1..Len(cs) |-> Entry(cs[i])]

\* the mutant inserts into the grid as the previous build left it
BuildGrid_noClear(g, cs) == InsertAll(g, cs)

\* grid.clear() followed by grid.insert(cell) for every cell
BuildGrid(g, cs) == InsertAll(clear(g), cs)

Bucket(g, k) == SelectSeq(g, LAMBDA e : e.k = k)

\* the mutant leaves out the four diagonal buckets
NeighborOffsets_noDiagonals ==
    << <<-1, 0>>, <<0, -1>>, <<0, 0>>, <<0, 1>>, <<1, 0>> >>

\* the order of the dx, dy loops of getNeighbors
NeighborOffsets ==
    << <<-1, -1>>, <<-1, 0>>, <<-1, 1>>, <<0, -1>>, <<0, 0>>, <<0, 1>>,
       <<1, -1>>, <<1, 0>>, <<1, 1>> >>

RECURSIVE CollectNeighbors(_, _, _, _)
CollectNeighbors(g, c, gk, n) ==
    IF n > Len(NeighborOffsets) THEN <<>>
    ELSE SelectSeq(Bucket(g, <<gk[1] + NeighborOffsets[n][1], gk[2] + NeighborOffsets[n][2]>>),
                   LAMBDA e : e.id /= c.id)
           \o CollectNeighbors(g, c, gk, n + 1)

\* getNeighbors(cell): the entries in the 3x3 buckets around the cell's current
\* position, without the entries that have the cell's id
getNeighbors(g, c) == CollectNeighbors(g, c, key(c.x, c.y), 1)

\* the cell an entry refers to, as it is in the list now
CellOf(cs, e) == cs[CHOOSE j \in 1..Len(cs) : cs[j].id = e.id]

----------------------------------------------------------------------------
(* CellDynamics: the per-cell loop and the second pass of stepPhysics *)

\* minDist of a cell pair
CellMinDist(c, other) ==
    RDiv(c.radius * CELL_WOBBLE_FACTOR, 100) + RDiv(other.radius * CELL_WOBBLE_FACTOR, 100)
      + 2 * Scale

\* the overlap test and correction of one neighbour: position by posGain percent of
\* the overlap along (dx, dy) / dist, velocity by velGain percent
RepelFrom(c, other, posGain, velGain) ==
    LET dx == c.x - other.x
        dy == c.y - other.y
        dist == Dist(dx, dy) + EPS
        minDist == CellMinDist(c, other)
        overlap == minDist - dist
        px == RDiv(dx * overlap, dist)
        py == RDiv(dy * overlap, dist)
    IN  IF dist < minDist
        THEN [c EXCEPT !.x = c.x + RDiv(px * posGain, 100),
                       !.y = c.y + RDiv(py * posGain, 100),
                       !.vx = c.vx + RDiv(px * velGain, 100),
                       !.vy = c.vy + RDiv(py * velGain, 100)]
        ELSE c

\* `for (const other of neighbors)`: the others are read from the list as it is now
RECURSIVE RepelAll(_, _, _, _, _, _)
RepelAll(c, cs, nbrs, n, posGain, velGain) ==
    IF n > Len(nbrs) THEN c
    ELSE RepelAll(RepelFrom(c, CellOf(cs, nbrs[n]), posGain, velGain), cs, nbrs, n + 1,
                  posGain, velGain)

\* containmentRadius of a cell in its organ
ContainmentRadius(o, c) ==
    Max(0, RDiv(o.radius * ORGAN_INNER_FACTOR, 100) - RDiv(c.radius * CELL_WOBBLE_FACTOR, 100))

\* the mutant snaps the position back and keeps the velocity
Clamp_keepVelocity(c, o) ==
    LET cr == ContainmentRadius(o, c)
        dxo == c.x - o.x
        dyo == c.y - o.y
        distOrgan == Dist(dxo, dyo) + EPS
    IN  IF distOrgan > cr
        THEN [c EXCEPT !.x = o.x + RDiv(dxo * cr, distOrgan),
                       !.y = o.y + RDiv(dyo * cr, distOrgan)]
        ELSE c

\* 1. the hard clamp: a cell beyond the containment radius is put on the boundary
\* along (dxo, dyo) / distOrgan and loses the outward part of its velocity
Clamp(c, o) ==
    LET cr == ContainmentRadius(o, c)
        dxo == c.x - o.x
        dyo == c.y - o.y
        distOrgan == Dist(dxo, dyo) + EPS
        vDot == RDiv(c.vx * dxo + c.vy * dyo, distOrgan)
        kill == vDot > 0
    IN  IF distOrgan > cr
        THEN [c EXCEPT !.x = o.x + RDiv(dxo * cr, distOrgan),
                       !.y = o.y + RDiv(dyo * cr, distOrgan),
                       !.vx = IF kill THEN c.vx - RDiv(dxo * vDot, distOrgan) ELSE c.vx,
                       !.vy = IF kill THEN c.vy - RDiv(dyo * vDot, distOrgan) ELSE c.vy]
        ELSE c

\* the inward pull on the clamped cell c1, computed from the offset the cell c had
\* before the clamp
InwardPull(c1, c, o, dt) ==
    LET cr == ContainmentRadius(o, c)
        dxo == c.x - o.x
        dyo == c.y - o.y
        distOrgan == Dist(dxo, dyo) + EPS
        pullStrength == RDiv(5 * distOrgan, cr + EPS)
    IN  [c1 EXCEPT
            !.vx = c1.vx + RDiv(RDiv((-dxo) * pullStrength, distOrgan) * FrameFactor(dt), 1000),
            !.vy = c1.vy + RDiv(RDiv((-dyo) * pullStrength, distOrgan) * FrameFactor(dt), 1000)]

\* 1. containment: the hard clamp, then the inward pull
Contain(c, o, dt) == InwardPull(Clamp(c, o), c, o, dt)

\* 3.-5. Brownian noise, damping, integration.  rnd = <<rx, ry>> are the two
\* Math.random() results, in hundredths
Integrate(c, rnd, dt) ==
    LET vx == RDiv((c.vx + RDiv((rnd[1] - 50) * BROWNIAN_STRENGTH, 100)) * DAMPING, 100)
        vy == RDiv((c.vy + RDiv((rnd[2] - 50) * BROWNIAN_STRENGTH, 100)) * DAMPING, 100)
    IN  [c EXCEPT !.vx = vx, !.vy = vy,
                  !.x = c.x + RDiv(vx * FrameFactor(dt), 1000),
                  !.y = c.y + RDiv(vy * FrameFactor(dt), 1000)]

\* 6. the clamp after integration: position only, against the containment radius
\* computed at the start of the cell's update (cr)
Reclamp(c, o, cr) ==
    LET dxo2 == c.x - o.x
        dyo2 == c.y - o.y
        distOrgan2 == Dist(dxo2, dyo2)
    IN  IF distOrgan2 > cr
        THEN [c EXCEPT !.x = o.x + RDiv(dxo2 * cr, distOrgan2 + EPS),
                       !.y = o.y + RDiv(dyo2 * cr, distOrgan2 + EPS)]
        ELSE c

\* the mutant snaps the radius to its target
EaseRadius_snap(c) == [c EXCEPT !.radius = c.targetRadius]

\* 7. cell.radius += (cell.targetRadius - cell.radius) * 0.05
EaseRadius(c) == [c EXCEPT !.radius = c.radius + RDiv((c.targetRadius - c.radius) * 5, 100)]

\* 8. cell.wobblePhase += cell.wobbleSpeed * cappedDt
AdvanceWobble(c, dt) ==
    [c EXCEPT !.wobblePhase = c.wobblePhase + RDiv(c.wobbleSpeed * cappedDt(dt), 1000)]

\* the body of the per-cell loop for the cell at index i; a cell whose chain has no
\* organ is skipped
UpdateCell(cs, os, g, i, rnd, dt) ==
    IF cs[i].chain \notin DOMAIN os THEN cs[i]
    ELSE LET o == os[cs[i].chain]
             cr == ContainmentRadius(o, cs[i])
             c1 == Contain(cs[i], o, dt)
             c2 == RepelAll(c1, cs, getNeighbors(g, c1), 1, 60, 30)
             c3 == Integrate(c2, rnd, dt)
             c4 == Reclamp(c3, o, cr)
         IN  AdvanceWobble(EaseRadius(c4), dt)

\* the per-cell loop: cells are updated in list order, in place
RECURSIVE Pass1(_, _, _, _, _, _)
Pass1(cs, os, g, i, noise, dt) ==
    IF i > Len(cs) THEN cs
    ELSE Pass1([cs EXCEPT ![i] = UpdateCell(cs, os, g, i, noise[i], dt)],
               os, g, i + 1, noise, dt)

\* the mutant gives the second pass the velocity nudge of the first
RECURSIVE Pass2_nudge(_, _, _)
Pass2_nudge(cs, g, i) ==
    IF i > Len(cs) THEN cs
    ELSE LET moved == RepelAll(cs[i], cs, getNeighbors(g, cs[i]), 1, 55, 30)
         IN  Pass2_nudge([cs EXCEPT ![i] = moved], g, i + 1)

\* the second pass: position-only corrections, in list order, in place
RECURSIVE Pass2(_, _, _)
Pass2(cs, g, i) ==
    IF i > Len(cs) THEN cs
    ELSE LET moved == RepelAll(cs[i], cs, getNeighbors(g, cs[i]), 1, 55, 0)
         IN  Pass2([cs EXCEPT ![i] = moved], g, i + 1)

\* stepPhysics(cells, organs, dt) run with the module-level grid holding g, with
\* noise[i] the random pair drawn for cell i; it leaves the grid of the second pass
stepPhysics(g, cs, os, dt, noise) ==
    LET os1 == StepOrgans(cs, os, dt)
        g1 == BuildGrid(g, cs)
        cs1 == Pass1(cs, os1, g1, 1, noise, dt)
        g2 == BuildGrid(g1, cs1)
    IN  [cells |-> Pass2(cs1, g2, 1), organs |-> os1, grid |-> g2]

----------------------------------------------------------------------------
(* The page: initOrgans and handleEvent.  A Math.random() result is a       *)
(* whole number of hundredths, 0..99.                                       *)

\* Math.cos / Math.sin of random * 2 * PI at the quarter turns, in hundredths
Cos2Pi(r) == IF r = 0 THEN 100 ELSE IF r = 50 THEN -100 ELSE 0
Sin2Pi(r) == IF r = 25 THEN 100 ELSE IF r = 75 THEN -100 ELSE 0

\* the random angles initOrgans and handleEvent may draw
Angles == {0}

\* parent.r * wobbleFactor + r * wobbleFactor + 10, all radii ORGAN_BASE_RADIUS
PlacementDist == 2 * RDiv(ORGAN_BASE_RADIUS * Scale * ORGAN_OUTER_FACTOR, 100) + 10 * Scale

Overlaps(t, placed) ==
    \E n \in 1..Len(placed) :
        Dist(t.x - placed[n].x, t.y - placed[n].y) < PlacementDist

\* the positions the attempt loop can try for the next organ
Candidates(placed) ==
    {[x |-> placed[n].x + RDiv(Cos2Pi(a) * PlacementDist, 100),
      y |-> placed[n].y + RDiv(Sin2Pi(a) * PlacementDist, 100)] :
        n \in 1..Len(placed), a \in Angles}

\* where the next organ can end up: a candidate that overlaps no placed organ, or
\* the centre (bestX, bestY keep cx, cy) when every attempt overlapped
NextPlacements(placed, cx, cy) ==
    {t \in Candidates(placed) : ~Overlaps(t, placed)}
      \cup (IF \E t \in Candidates(placed) : Overlaps(t, placed)
            THEN {[x |-> cx, y |-> cy]} ELSE {})

\* every list of organ positions initOrgans can produce, first organ at the centre
RECURSIVE Placements(_, _, _)
Placements(placed, cx, cy) ==
    IF Len(placed) = Len(CHAINS) THEN {placed}
    ELSE IF placed = <<>> THEN Placements(<<[x |-> cx, y |-> cy]>>, cx, cy)
    ELSE UNION {Placements(Append(placed, t), cx, cy) : t \in NextPlacements(placed, cx, cy)}

\* the organ maps initOrgans(width, height) can build (width, height in pixels)
initOrgans(width, height) ==
    {[k \in CHAIN_MAP |->
        LET i == CHOOSE n \in 1..Len(CHAINS) : CHAINS[n] = k
        IN  [x |-> placed[i].x, y |-> placed[i].y,
             radius |-> ORGAN_BASE_RADIUS * Scale, cellCount |-> 0]] :
        placed \in Placements(<<>>, (width * Scale) \div 2, (height * Scale) \div 2)}

\* the indices of the cells of `chain`, in list order (chainCells)
ChainCells(cs, chain) == {i \in 1..Len(cs) : cs[i].chain = chain}

\* the mutant keeps a only if a.born > b.born: it finds the newest cell
OldestFrom_newest(cs, chain) ==
    CHOOSE i \in ChainCells(cs, chain) :
        /\ \A j \in ChainCells(cs, chain) : cs[j].born <= cs[i].born
        /\ \A j \in ChainCells(cs, chain) : j > i => cs[j].born < cs[i].born

\* the index of the oldest cell of `chain`. The reduce keeps a only if
\* a.born < b.born and takes b otherwise, so its accumulator is at every point the
\* last of the cells seen so far with the least born: the result is the last cell
\* of the chain whose born is the minimum.
OldestFrom(cs, chain) ==
    CHOOSE i \in ChainCells(cs, chain) :
        /\ \A j \in ChainCells(cs, chain) : cs[i].born <= cs[j].born
        /\ \A j \in ChainCells(cs, chain) : j > i => cs[i].born < cs[j].born

RemoveAt(cs, i) == SubSeq(cs, 1, i - 1) \o SubSeq(cs, i + 1, Len(cs))

\* the mutant evicts only when the chain has more than MAX_CELLS_PER_CHAIN cells
Evict_late(cs, chain) ==
    IF CountCells(cs, chain) > MAX_CELLS_PER_CHAIN
    THEN RemoveAt(cs, OldestFrom(cs, chain))
    ELSE cs

\* the eviction of a new-pair event
Evict(cs, chain) ==
    IF CountCells(cs, chain) >= MAX_CELLS_PER_CHAIN
    THEN RemoveAt(cs, OldestFrom(cs, chain))
    ELSE cs

\* the cell a new-pair event creates; d holds the Math.random() results
NewCell(event, organ, d, t) ==
    LET radius == liquidityToRadius(OrZero(event.liquidity))
        dist == RDiv(RDiv(d.dist * organ.radius, 100) * 60, 100)
    IN  [id |-> <<event.chain, event.pairAddress>>,
         chain |-> event.chain,
         pairAddress |-> event.pairAddress,
         x |-> organ.x + RDiv(Cos2Pi(d.angle) * dist, 100),
         y |-> organ.y + RDiv(Sin2Pi(d.angle) * dist, 100),
         vx |-> (d.vx - 50) * 2,
         vy |-> (d.vy - 50) * 2,
         radius |-> 2 * Scale,
         targetRadius |-> radius,
         wobblePhase |-> RDiv(d.phase * 628, 100),
         wobbleSpeed |-> RDiv(MIN_CELL_RADIUS * Scale * Scale, radius) + RDiv(d.speed * 30, 100),
         born |-> t,
         lastUpdate |-> t,
         liquidity |-> OrZero(event.liquidity)]

\* the mutant also sets the radius to the new target
UpdateFound_snap(cs, event, t) ==
    LET i == CHOOSE n \in 1..Len(cs) :
                 /\ cs[n].pairAddress = event.pairAddress
                 /\ \A m \in 1..(n - 1) : cs[m].pairAddress /= event.pairAddress
        baseRadius == liquidityToRadius(OrZero(event.liquidity))
        multiplier == volumeToRadiusMultiplier(OrZero(event.volumeUsd))
        target == Min(MAX_CELL_RADIUS * Scale, RDiv(baseRadius * multiplier, Scale))
    IN  [cs EXCEPT ![i] =
            [@ EXCEPT !.targetRadius = target,
                      !.radius = target,
                      !.liquidity = IF event.liquidity = {} THEN @ ELSE OrZero(event.liquidity),
                      !.lastUpdate = t]]

\* the mutant forgets the Math.min against MAX_CELL_RADIUS
UpdateFound_uncapped(cs, event, t) ==
    LET i == CHOOSE n \in 1..Len(cs) :
                 /\ cs[n].pairAddress = event.pairAddress
                 /\ \A m \in 1..(n - 1) : cs[m].pairAddress /= event.pairAddress
        baseRadius == liquidityToRadius(OrZero(event.liquidity))
        multiplier == volumeToRadiusMultiplier(OrZero(event.volumeUsd))
    IN  [cs EXCEPT ![i] =
            [@ EXCEPT !.targetRadius = RDiv(baseRadius * multiplier, Scale),
                      !.liquidity = IF event.liquidity = {} THEN @ ELSE OrZero(event.liquidity),
                      !.lastUpdate = t]]

\* the pair-update branch applied to the first cell with the event's pairAddress
UpdateFound(cs, event, t) ==
    LET i == CHOOSE n \in 1..Len(cs) :
                 /\ cs[n].pairAddress = event.pairAddress
                 /\ \A m \in 1..(n - 1) : cs[m].pairAddress /= event.pairAddress
        baseRadius == liquidityToRadius(OrZero(event.liquidity))
        multiplier == volumeToRadiusMultiplier(OrZero(event.volumeUsd))
    IN  [cs EXCEPT ![i] =
            [@ EXCEPT !.targetRadius = Min(MAX_CELL_RADIUS * Scale, RDiv(baseRadius * multiplier, Scale)),
                      !.liquidity = IF event.liquidity = {} THEN @ ELSE OrZero(event.liquidity),
                      !.lastUpdate = t]]

\* the mutant looks for a live cell with the new cell's id (chain and pairAddress)
\* instead of its pairAddress
handleEvent_dedupById(cs, os, event, d, t) ==
    IF event.chain \notin CHAIN_MAP THEN cs
    ELSE IF event.type = "new-pair"
    THEN IF \E n \in 1..Len(cs) : cs[n].id = <<event.chain, event.pairAddress>> THEN cs
         ELSE IF event.chain \notin DOMAIN os THEN cs
         ELSE Append(Evict(cs, event.chain), NewCell(event, os[event.chain], d, t))
    ELSE IF \E n \in 1..Len(cs) : cs[n].pairAddress = event.pairAddress
         THEN UpdateFound(cs, event, t)
         ELSE cs

\* handleEvent(event): the cell list it leaves
handleEvent(cs, os, event, d, t) ==
    IF event.chain \notin CHAIN_MAP THEN cs
    ELSE IF event.type = "new-pair"
    THEN IF \E n \in 1..Len(cs) : cs[n].pairAddress = event.pairAddress THEN cs
         ELSE IF event.chain \notin DOMAIN os THEN cs
         ELSE Append(Evict(cs, event.chain), NewCell(event, os[event.chain], d, t))
    ELSE IF \E n \in 1..Len(cs) : cs[n].pairAddress = event.pairAddress
         THEN UpdateFound(cs, event, t)
         ELSE cs

----------------------------------------------------------------------------
(* The stream route: start() of GET's ReadableStream.  The connection is a   *)
(* record: pc is the position of start() ("start" while it awaits the        *)
(* client, "running" once the subscriptions and the two timers exist,        *)
(* "closed" when the client could not be created), alive is the flag of that *)
(* name, open tells whether controller.enqueue still succeeds (it throws     *)
(* once the stream is closed or cancelled), heartbeat and updateInterval     *)
(* tell whether the timer of that name is set, discovered holds the chains   *)
(* whose discoveredPairs set is not empty, updateUnsubs the chains with an   *)
(* update subscription, attempts counts the calls of controller.enqueue and  *)
(* enqueued those that returned.                                             *)

RouteStart ==
    [pc |-> "start", alive |-> TRUE, open |-> TRUE, heartbeat |-> FALSE,
     updateInterval |-> FALSE, discovered |-> {}, updateUnsubs |-> {},
     attempts |-> 0, enqueued |-> 0]

\* controller.enqueue inside a try: the catch sets alive = false
enqueue(r) ==
    IF r.open THEN [r EXCEPT !.attempts = @ + 1, !.enqueued = @ + 1]
    ELSE [r EXCEPT !.attempts = @ + 1, !.alive = FALSE]

\* the mutant enqueues without looking at alive
send_unguarded(r) == enqueue(r)

\* send(event)
send(r) == IF ~r.alive THEN r ELSE enqueue(r)

\* next of a newPairs subscription for one item: hasAddress is data.pair_address
\* being there, chainName the normalised chain name of the item
newPairsNext(r, hasAddress, chainName) ==
    IF ~hasAddress THEN r
    ELSE send([r EXCEPT !.discovered =
                   IF chainName \in CHAIN_MAP THEN @ \cup {chainName} ELSE @])

\* next of an updatePairs subscription for one item
updatePairsNext(r, hasAddress) == IF ~hasAddress THEN r ELSE send(r)

\* the callback of updateInterval
updateIntervalTick(r) ==
    IF ~r.alive THEN [r EXCEPT !.updateInterval = FALSE]
    ELSE [r EXCEPT !.updateUnsubs = @ \cup r.discovered]

\* the callback of heartbeat
heartbeatTick(r) ==
    IF ~r.alive THEN [r EXCEPT !.heartbeat = FALSE, !.updateInterval = FALSE]
    ELSE LET r1 == enqueue(r)
         IN  IF r1.alive THEN r1
             ELSE [r1 EXCEPT !.heartbeat = FALSE, !.updateInterval = FALSE]

----------------------------------------------------------------------------
(* Inputs of the handlers, drawn from small sets *)

\* window sizes (innerWidth, innerHeight)
WindowSizes == {<<400, 300>>}

\* frame deltas in ms: two frames with the same timestamp, a regular frame and a
\* stalled tab
DtValues == {0, 16, 5000}

\* the noise of one step: every cell undisturbed, or odd and even list positions
\* pushed opposite ways
NoisePatterns(n) ==
    {[i \in 1..n |-> <<50, 50>>],
     [i \in 1..n |-> IF i % 2 = 1 THEN <<17, 83>> ELSE <<83, 17>>]}

\* the new-pair events of the stream: two pairs of one chain and a pair of another,
\* liquidity absent or 10^7
NewPairEvents ==
    {[type |-> "new-pair", chain |-> e[1], pairAddress |-> e[2], liquidity |-> e[3], volumeUsd |-> {}] :
        e \in {<<"ETH_MAINNET", "0xa", {}>>, <<"ETH_MAINNET", "0xb", {10000000}>>,
               <<"BSC_MAINNET", "0xb", {}>>}}

\* the Math.random() results of one new-pair event: a cell born at rest at the organ
\* centre, or born moving, off centre
Draws ==
    {[angle |-> 0, dist |-> 0, vx |-> 50, vy |-> 50, phase |-> 0, speed |-> 0],
     [angle |-> 25, dist |-> 50, vx |-> 75, vy |-> 50, phase |-> 0, speed |-> 0]}

----------------------------------------------------------------------------
(* The page as a state machine: mount, then stream events, animation frames *)
(* and window resizes in any order.                                         *)

\* after mount: resize() has run initOrgans once, no cell yet
Init ==
    /\ cells = <<>>
    /\ \E ws \in WindowSizes : organs \in initOrgans(ws[1], ws[2])
    /\ grid = <<>>
    /\ frame = 0
    /\ lastOp = "init"
    /\ lastDt = 0
    /\ lastNoise = <<>>
    /\ now = 0
    /\ resizes = 0
    /\ radiusCalls = {}
    /\ multCalls = {}
    /\ route = RouteStart

\* es.onmessage delivering one of `events`: handleEvent(event)
Deliver(events, draws) ==
    \E event \in events, d \in draws :
        /\ cells' = handleEvent(cells, organs, event, d, now)
        /\ now' = IF cells' /= cells /\ event.type = "new-pair" THEN now + 1 ELSE now
        /\ lastOp' = "event"
        /\ UNCHANGED <<organs, grid, frame, lastDt, lastNoise, resizes, radiusCalls, multCalls, route>>

HandleEvent == Deliver(NewPairEvents, Draws)

\* animate with a frame delta from `dts`: one stepPhysics call
Animate(dts, limit) ==
    /\ frame < limit
    /\ \E dt \in dts, noise \in NoisePatterns(Len(cells)) :
        LET r == stepPhysics(grid, cells, organs, dt, noise)
        IN  /\ cells' = r.cells
            /\ organs' = r.organs
            /\ grid' = r.grid
            /\ lastDt' = dt
            /\ lastNoise' = noise
    /\ frame' = frame + 1
    /\ lastOp' = "step"
    /\ UNCHANGED <<now, resizes, radiusCalls, multCalls, route>>

Step == Animate(DtValues, MaxFrames)

\* window resize to one of `sizes`: initOrgans replaces the organ map
Resized(sizes) ==
    /\ resizes < MaxResizes
    /\ \E ws \in sizes : organs' \in initOrgans(ws[1], ws[2])
    /\ resizes' = resizes + 1
    /\ lastOp' = "resize"
    /\ UNCHANGED <<cells, grid, frame, lastDt, lastNoise, now, radiusCalls, multCalls, route>>

Resize == Resized(WindowSizes)

Next == HandleEvent \/ Step \/ Resize

Spec == Init /\ [][Next]_vars

----------------------------------------------------------------------------
(* The radius mappings on their own: a second state machine that calls the  *)
(* two pure functions on inputs drawn from bounded sets and records the     *)
(* results.                                                                 *)

LiquidityInputs ==
    {{}, {-5}, {0}, {1}, {50}, {100}, {101}, {1000}, {31623}, {1000000}, {10000000},
     {2000000000}}

VolumeInputs ==
    {{}, {-1}, {0}, {1}, {999}, {1000}, {1001}, {31623}, {999999}, {1000000}, {1000000000}}

InitRadius ==
    /\ cells = <<>>
    /\ organs = <<>>
    /\ grid = <<>>
    /\ frame = 0
    /\ lastOp = "init"
    /\ lastDt = 0
    /\ lastNoise = <<>>
    /\ now = 0
    /\ resizes = 0
    /\ radiusCalls = {}
    /\ multCalls = {}
    /\ route = RouteStart

CallLiquidityToRadius ==
    /\ Cardinality(radiusCalls) < MaxCalls
    /\ \E l \in LiquidityInputs :
        radiusCalls' = radiusCalls \cup {[arg |-> l, res |-> liquidityToRadius(OrZero(l))]}
    /\ UNCHANGED <<cells, organs, grid, frame, lastOp, lastDt, lastNoise, now, resizes, multCalls, route>>

CallVolumeToRadiusMultiplier ==
    /\ Cardinality(multCalls) < MaxCalls
    /\ \E v \in VolumeInputs :
        multCalls' = multCalls \cup {[arg |-> v, res |-> volumeToRadiusMultiplier(OrZero(v))]}
    /\ UNCHANGED <<cells, organs, grid, frame, lastOp, lastDt, lastNoise, now, resizes, radiusCalls,
                   route>>

NextRadius == CallLiquidityToRadius \/ CallVolumeToRadiusMultiplier

SpecRadius == InitRadius /\ [][NextRadius]_vars

----------------------------------------------------------------------------
(* The event stream on its own: the page after a burst of new-pair events   *)
(* has nearly filled one chain, then further stream events and no frame.    *)

\* the k-th new-pair event of the burst, its Math.random() results, and the
\* Date.now() it is handled at (two events per tick)
BacklogEvent(k) ==
    [type |-> "new-pair", chain |-> CHAINS[1], pairAddress |-> ToString(k),
     liquidity |-> IF k % 2 = 0 THEN {} ELSE {10000000}, volumeUsd |-> {}]

BacklogDraw(k) ==
    [angle |-> (k % 4) * 25, dist |-> (k * 7) % 100, vx |-> 50, vy |-> 50, phase |-> 0,
     speed |-> 0]

BacklogTime(k) == k \div 2

\* the cell list after handleEvent has handled events k..n of the burst, from cs
RECURSIVE BacklogFrom(_, _, _, _)
BacklogFrom(cs, k, n, os) ==
    IF Len(cs) = n \/ k > n THEN cs
    ELSE BacklogFrom(handleEvent(cs, os, BacklogEvent(k), BacklogDraw(k), BacklogTime(k)),
                     k + 1, n, os)

\* the cell list after the first n events of the burst
Backlog(n, os) == BacklogFrom(<<>>, 1, n, os)

\* the burst stops one or two cells short of MAX_CELLS_PER_CHAIN
BacklogSizes == {MAX_CELLS_PER_CHAIN - 2, MAX_CELLS_PER_CHAIN - 1}

\* what the stream sends next: new pairs of the full chain and of another chain, an
\* update of the oldest pair, and an event of a chain that is not configured
StreamEvents ==
    {[type |-> "new-pair", chain |-> e[1], pairAddress |-> e[2], liquidity |-> e[3],
      volumeUsd |-> {}] :
        e \in {<<CHAINS[1], "0xa", {}>>, <<CHAINS[1], "0xb", {10000000}>>,
               <<CHAINS[1], "0xc", {1000}>>, <<CHAINS[3], "0xd", {}>>,
               <<"SOLANA_MAINNET", "0xe", {}>>}}
      \cup {[type |-> "pair-update", chain |-> CHAINS[1], pairAddress |-> ToString(1),
              liquidity |-> {1000000}, volumeUsd |-> {1000000}]}

StreamDraws == {[angle |-> 50, dist |-> 99, vx |-> 75, vy |-> 50, phase |-> 0, speed |-> 0]}

InitStream ==
    /\ \E ws \in WindowSizes : organs \in initOrgans(ws[1], ws[2])
    /\ \E n \in BacklogSizes :
        /\ cells = Backlog(n, organs)
        /\ now = BacklogTime(n) + 1
    /\ grid = <<>>
    /\ frame = 0
    /\ lastOp = "init"
    /\ lastDt = 0
    /\ lastNoise = <<>>
    /\ resizes = 0
    /\ radiusCalls = {}
    /\ multCalls = {}
    /\ route = RouteStart

HandleStreamEvent == Deliver(StreamEvents, StreamDraws)

NextStream == HandleStreamEvent

SpecStream == InitStream /\ [][NextStream]_vars

----------------------------------------------------------------------------
(* The page with a live pair: regular frames, pair-update events for a pair *)
(* already shown, and a window that is made wider.                          *)

\* two new pairs of one chain and updates of the first of them
LiveEvents ==
    {[type |-> "new-pair", chain |-> CHAINS[1], pairAddress |-> "0xa", liquidity |-> {},
      volumeUsd |-> {}],
     [type |-> "new-pair", chain |-> CHAINS[1], pairAddress |-> "0xb",
      liquidity |-> {10000000}, volumeUsd |-> {}],
     [type |-> "pair-update", chain |-> CHAINS[1], pairAddress |-> "0xa",
      liquidity |-> {1000000}, volumeUsd |-> {1000000}]}

\* a regular frame
LiveDts == {16}

\* the window after it has been made wider
WideSizes == {<<1000, 300>>}

HandleLiveEvent == Deliver(LiveEvents, Draws)

StepLive == Animate(LiveDts, MaxFrames)

ResizeWide == Resized(WideSizes)

NextLive == HandleLiveEvent \/ StepLive \/ ResizeWide

SpecLive == Init /\ [][NextLive]_vars

----------------------------------------------------------------------------
(* The page before the stream has delivered anything: frames on an empty    *)
(* cell list, which move the organs only.                                   *)

\* regular frames and frames at the cap
IdleDts == {16, 33}

StepIdle == Animate(IdleDts, MaxIdleFrames)

NextIdle == StepIdle

SpecIdle == Init /\ [][NextIdle]_vars

----------------------------------------------------------------------------
(* The page under a mixed feed: pairs at both ends of the liquidity scale,   *)
(* the same pairAddress announced on two chains, a chain that is not         *)
(* configured, updates of known and unknown pairs, and regular frames.       *)

FeedEvents ==
    {[type |-> e[1], chain |-> e[2], pairAddress |-> e[3], liquidity |-> e[4],
      volumeUsd |-> e[5]] :
        e \in {<<"new-pair", CHAINS[1], "0xa", {}, {}>>,
               <<"new-pair", CHAINS[3], "0xa", {1000000000}, {}>>,
               <<"new-pair", CHAINS[1], "0xb", {1}, {}>>,
               <<"new-pair", "SOLANA_MAINNET", "0xc", {1000}, {}>>,
               <<"pair-update", CHAINS[1], "0xa", {1000000}, {1000000}>>,
               <<"pair-update", CHAINS[3], "0xb", {1}, {}>>,
               <<"pair-update", "SOLANA_MAINNET", "0xa", {50}, {}>>,
               <<"pair-update", CHAINS[1], "0xz", {1000000}, {1000000}>>}}

\* the Math.random() results of a new-pair event: a cell born moving, off centre
FeedDraws == {[angle |-> 25, dist |-> 50, vx |-> 75, vy |-> 50, phase |-> 0, speed |-> 0]}

HandleFeedEvent == Deliver(FeedEvents, FeedDraws)

StepFeed == Animate(LiveDts, MaxFeedFrames)

NextFeed == HandleFeedEvent \/ StepFeed

SpecFeed == Init /\ [][NextFeed]_vars

----------------------------------------------------------------------------
(* One connection of the stream route: start(), then upstream callbacks,     *)
(* timer callbacks and the reader going away, in any order.  Callbacks run   *)
(* to completion, one at a time.                                             *)

pageVars == <<cells, organs, grid, frame, lastOp, lastDt, lastNoise, now, resizes, radiusCalls,
              multCalls>>

\* what an upstream item says about itself: <<pair_address is there, chain name>>
UpstreamItems(chain) == {<<FALSE, chain>>, <<TRUE, chain>>, <<TRUE, "SOLANA_MAINNET">>}

\* getGoldRushClient() resolved: the subscriptions are made and both timers set
ClientCreated ==
    /\ route.pc = "start"
    /\ route' = [route EXCEPT !.pc = "running", !.heartbeat = TRUE, !.updateInterval = TRUE]
    /\ UNCHANGED pageVars

\* getGoldRushClient() rejected: controller.close() and return
ClientFailed ==
    /\ route.pc = "start"
    /\ route' = [route EXCEPT !.pc = "closed", !.open = FALSE]
    /\ UNCHANGED pageVars

\* the reader goes away: the stream is cancelled
Disconnect ==
    /\ route.open
    /\ route' = [route EXCEPT !.open = FALSE]
    /\ UNCHANGED pageVars

\* a newPairs subscription delivers an item; the subscriptions are never ended
NewPairsNext ==
    /\ route.pc = "running"
    /\ route.attempts < MaxChunks
    /\ \E chain \in CHAIN_MAP : \E item \in UpstreamItems(chain) :
          route' = newPairsNext(route, item[1], item[2])
    /\ UNCHANGED pageVars

\* an updatePairs subscription delivers an item
UpdatePairsNext ==
    /\ route.pc = "running"
    /\ route.attempts < MaxChunks
    /\ route.updateUnsubs /= {}
    /\ \E hasAddress \in BOOLEAN : route' = updatePairsNext(route, hasAddress)
    /\ UNCHANGED pageVars

\* updateInterval fires
UpdateIntervalTick ==
    /\ route.updateInterval
    /\ route' = updateIntervalTick(route)
    /\ UNCHANGED pageVars

\* heartbeat fires
HeartbeatTick ==
    /\ route.heartbeat
    /\ route.alive => route.attempts < MaxChunks
    /\ route' = heartbeatTick(route)
    /\ UNCHANGED pageVars

NextRoute ==
    \/ ClientCreated
    \/ ClientFailed
    \/ Disconnect
    \/ NewPairsNext
    \/ UpdatePairsNext
    \/ UpdateIntervalTick
    \/ HeartbeatTick

SpecRoute == Init /\ [][NextRoute]_vars

\* a timer that is set and not cleared fires again
SpecRouteFair == SpecRoute /\ WF_vars(HeartbeatTick) /\ WF_vars(UpdateIntervalTick)

----------------------------------------------------------------------------
(* Claims *)

\* the tolerance of the geometric claims: 0.05
Tolerance == 5 * EPS

AfterStep == lastOp = "step"

CellIndices == 1..Len(cells)

CentreDist(a, b) == Dist(a.x - b.x, a.y - b.y)

C2_ContainedAfterStep ==
    AfterStep =>
        \A i \in CellIndices :
            cells[i].chain \in DOMAIN organs =>
                CentreDist(cells[i], organs[cells[i].chain])
                    <= ContainmentRadius(organs[cells[i].chain], cells[i]) + Tolerance

SamePlace(c, d) == c.x = d.x /\ c.y = d.y

\* C4: two cells of one organ at exactly the same coordinates, with nonzero radius,
\* are at a strictly positive centre distance after one stepPhysics call, for every
\* dt and every noise.
C4_CoincidentCellsSeparate ==
    [][frame' = frame + 1 =>
          \A i, j \in CellIndices :
              (/\ i < j
               /\ cells[i].chain = cells[j].chain
               /\ cells[i].radius > 0 /\ cells[j].radius > 0
               /\ SamePlace(cells[i], cells[j]))
                  => ~SamePlace(cells'[i], cells'[j])]_vars

\* one disc lies inside the other: centre distance at most the radius difference
FullyOverlap(c, d) ==
    (c.x - d.x) * (c.x - d.x) + (c.y - d.y) * (c.y - d.y)
        <= (c.radius - d.radius) * (c.radius - d.radius)

\* C5: two cells of one organ that overlap fully are farther apart after one
\* stepPhysics call than before it.
C5_FullOverlapDiverges ==
    [][frame' = frame + 1 =>
          \A i, j \in CellIndices :
              (/\ i < j
               /\ cells[i].chain = cells[j].chain
               /\ FullyOverlap(cells[i], cells[j]))
                  => CentreDist(cells'[i], cells'[j]) > CentreDist(cells[i], cells[j])]_vars

\* C6: for every dt above 0.033 s, stepPhysics leaves the same cells and organs as a
\* call with dt = 0.033 s on the same state and the same noise.
C6_DtCapped ==
    [][(frame' = frame + 1 /\ lastDt' > DT_CAP) =>
          [cells |-> cells', organs |-> organs', grid |-> grid']
              = stepPhysics(grid, cells, organs, DT_CAP, lastNoise')]_vars

\* a stalled frame (dt far above the cap) has been stepped with a moving cell
C6_Witness ==
    /\ AfterStep
    /\ lastDt > DT_CAP
    /\ \E i \in CellIndices : cells[i].vx /= 0 \/ cells[i].vy /= 0

C9_VolumeMultiplier ==
    /\ \A c \in multCalls :
        /\ OrZero(c.arg) <= 0 => c.res = Scale
        /\ c.res >= Scale
        /\ c.res <= 2 * Scale
        /\ OrZero(c.arg) >= 1000000 => c.res = 2 * Scale
    /\ \A c, d \in multCalls :
        OrZero(c.arg) <= OrZero(d.arg) => c.res <= d.res

\* the multiplier has been computed for volume 0 and for a volume of 10^6 or more
C9_Witness ==
    /\ \E c \in multCalls : c.arg = {0}
    /\ \E c \in multCalls : OrZero(c.arg) >= 1000000

NearKey(k1, k2) == Abs(k1[1] - k2[1]) <= 1 /\ Abs(k1[2] - k2[2]) <= 1

\* where a cell is when it queries the grid: where it was inserted, or one bucket
\* width away from there
QueryShifts ==
    {<<0, 0>>, <<SPATIAL_CELL_SIZE * Scale, 0>>, <<-(SPATIAL_CELL_SIZE * Scale), 0>>,
     <<0, -(SPATIAL_CELL_SIZE * Scale)>>}

\* C11: after clear() and insert of every cell, getNeighbors(c) returns exactly the
\* inserted cells other than c whose bucket at insertion is the bucket of c's current
\* position or one of the 8 around it, each exactly once, and never c itself.
C11_NeighborsExact ==
    LET g == BuildGrid(grid, cells)
    IN  \A i \in CellIndices, sh \in QueryShifts :
            LET c == [cells[i] EXCEPT !.x = @ + sh[1], !.y = @ + sh[2]]
                nb == getNeighbors(g, c)
                returned == {nb[n].id : n \in 1..Len(nb)}
                expected == {cells[j].id : j \in {j \in CellIndices \ {i} :
                                NearKey(key(cells[j].x, cells[j].y), key(c.x, c.y))}}
            IN  /\ returned = expected
                /\ Cardinality(returned) = Len(nb)
                /\ c.id \notin returned

\* a full chain spread over two buckets next to a cell of another chain
C11_Witness ==
    /\ Len(cells) > MAX_CELLS_PER_CHAIN
    /\ \E i, j \in CellIndices : key(cells[i].x, cells[i].y)[1] + 1 = key(cells[j].x, cells[j].y)[1]
    /\ \E i, j \in CellIndices : ~NearKey(key(cells[i].x, cells[i].y), key(cells[j].x, cells[j].y))

\* C13: after any sequence of stream events no chain has more than
\* MAX_CELLS_PER_CHAIN live cells.
C13_ChainCapped ==
    \A chain \in CHAIN_MAP : CountCells(cells, chain) <= MAX_CELLS_PER_CHAIN

\* the full chain has taken a new pair: its oldest cell is gone, the new one is last
C13_Witness ==
    /\ CountCells(cells, CHAINS[1]) = MAX_CELLS_PER_CHAIN
    /\ \A i \in CellIndices : cells[i].pairAddress /= ToString(1)
    /\ cells[Len(cells)].pairAddress \in {"0xa", "0xb", "0xc"}

\* the transition is a new-pair event that evicted: the list kept its length and got
\* a cell it did not have
Evicting ==
    /\ lastOp' = "event"
    /\ Len(cells') = Len(cells)
    /\ Len(cells) > 0
    /\ \A i \in CellIndices : cells[i].id /= cells'[Len(cells')].id

\* C19: a new-pair event that evicts removes exactly one cell, of the event's chain
\* and with the minimum born of that chain; all other cells keep their fields and
\* their order.
C19_EvictsOldest ==
    [][Evicting =>
          \E i \in CellIndices :
              /\ cells[i].chain = cells'[Len(cells')].chain
              /\ \A j \in CellIndices :
                    cells[j].chain = cells[i].chain => cells[i].born <= cells[j].born
              /\ \A j \in 1..(i - 1) : cells'[j] = cells[j]
              /\ \A j \in i..(Len(cells) - 1) : cells'[j] = cells[j + 1]]_vars

\* two evictions have happened: the second chose among cells born in the same tick
C19_Witness ==
    /\ CountCells(cells, CHAINS[1]) = MAX_CELLS_PER_CHAIN
    /\ \A i \in CellIndices : cells[i].pairAddress \notin {ToString(1), ToString(3)}
    /\ \E i \in CellIndices : cells[i].pairAddress = ToString(2)

\* C14: once the organ map exists, organs change only through stepPhysics: no frame,
\* no change of any organ.
C14_OrgansChangeOnlyInSteps ==
    [][frame' = frame => organs' = organs]_vars

\* C16: a step changes every live cell's radius by exactly 0.05 * (targetRadius -
\* radius); an event or a resize leaves every field of every live cell as it was,
\* except targetRadius, liquidity and lastUpdate.
C16_RadiusOnlyEased ==
    [][\A i \in CellIndices :
          /\ i <= Len(cells')
          /\ IF frame' = frame + 1
             THEN cells'[i].radius
                      = cells[i].radius + RDiv((cells[i].targetRadius - cells[i].radius) * 5, 100)
             ELSE [cells'[i] EXCEPT !.targetRadius = cells[i].targetRadius,
                                    !.liquidity = cells[i].liquidity,
                                    !.lastUpdate = cells[i].lastUpdate] = cells[i]]_vars

\* a pair was updated after its birth and has been stepped since
C16_Witness ==
    /\ AfterStep
    /\ \E i \in CellIndices :
        /\ cells[i].lastUpdate > cells[i].born
        /\ cells[i].targetRadius = MAX_CELL_RADIUS * Scale
        /\ cells[i].radius > 2 * Scale
        /\ cells[i].radius < cells[i].targetRadius

\* the organs a step works with, and the grids of its two passes
OrgansOfStep == StepOrgans(cells, organs, lastDt')
GridOfPass1 == BuildGrid(grid, cells)

\* the cell list inside the per-cell loop, when the first n cells have been updated
RECURSIVE Pass1Upto(_)
Pass1Upto(n) ==
    IF n = 0 THEN cells
    ELSE LET p == Pass1Upto(n - 1)
         IN  [p EXCEPT ![n] = UpdateCell(p, OrgansOfStep, GridOfPass1, n, lastNoise'[n], lastDt')]

CellsAfterPass1 == Pass1Upto(Len(cells))
GridOfPass2 == BuildGrid(GridOfPass1, CellsAfterPass1)

\* the cell list inside the second pass, when the first n cells have been corrected
RECURSIVE Pass2Upto(_)
Pass2Upto(n) ==
    IF n = 0 THEN CellsAfterPass1
    ELSE LET q == Pass2Upto(n - 1)
         IN  [q EXCEPT ![n] = RepelAll(q[n], q, getNeighbors(GridOfPass2, q[n]), 1, 55, 0)]

\* cell c, querying grid g while the list is cs, is within the collision threshold of
\* a cell the query does not return
Missed(g, cs, c) ==
    LET nb == getNeighbors(g, c)
    IN  \E j \in 1..Len(cs) :
            /\ cs[j].id /= c.id
            /\ CentreDist(c, cs[j]) + EPS < CellMinDist(c, cs[j])
            /\ \A n \in 1..Len(nb) : nb[n].id /= cs[j].id

\* C12: whenever stepPhysics queries the grid for a cell, in pass 1 (after the cell's
\* clamp) or in pass 2, every other cell that is then within the collision threshold
\* of it is among the cells returned.
C12_NoCollisionMissed ==
    [][frame' = frame + 1 =>
          \A i \in CellIndices :
              /\ cells[i].chain \in DOMAIN organs =>
                    ~Missed(GridOfPass1, Pass1Upto(i - 1),
                            Contain(Pass1Upto(i - 1)[i], OrgansOfStep[cells[i].chain], lastDt'))
              /\ ~Missed(GridOfPass2, Pass2Upto(i - 1), Pass2Upto(i - 1)[i])]_vars

\* C17: the second pass changes only the positions of cells: every other field of
\* every cell, and every organ, is after the step as it was when pass 2 began.
C17_Pass2MovesOnly ==
    [][frame' = frame + 1 =>
          /\ Len(cells') = Len(cells)
          /\ \A i \in CellIndices :
                [cells'[i] EXCEPT !.x = CellsAfterPass1[i].x, !.y = CellsAfterPass1[i].y]
                    = CellsAfterPass1[i]
          /\ organs' = OrgansOfStep]_vars

\* a step has ended with two cells still overlapping, at different places: its second
\* pass had an overlap to correct
C17_Witness ==
    /\ AfterStep
    /\ \E i, j \in CellIndices :
        /\ i /= j
        /\ ~SamePlace(cells[i], cells[j])
        /\ CentreDist(cells[i], cells[j]) + EPS < CellMinDist(cells[i], cells[j])

\* the radial and the tangential part of a velocity, for the offset (dxo, dyo) and its
\* length distOrgan
Radial(c, dxo, dyo, distOrgan) == RDiv(c.vx * dxo + c.vy * dyo, distOrgan)
Tangential(c, dxo, dyo, distOrgan) == RDiv(c.vy * dxo - c.vx * dyo, distOrgan)

C20_GridStateIrrelevant ==
    [][frame' = frame + 1 =>
          \A g \in {<<>>, grid} :
              LET r == stepPhysics(g, cells, organs, lastDt', lastNoise')
              IN  r.cells = cells' /\ r.organs = organs']_vars

\* a second step has run on two cells that were stepped before: the grid held their
\* entries from the earlier call
C20_Witness ==
    /\ AfterStep
    /\ frame = 2
    /\ Len(cells) = 2
    /\ \A i \in CellIndices :
        cells[i].radius > 2 * Scale + RDiv((DEFAULT_CELL_RADIUS - 2) * Scale * 5, 100)
    /\ NearKey(grid[1].k, grid[2].k)

\* the organs' positions relative to the first organ, and their radii
Relative(os) ==
    [k \in DOMAIN os |-> <<os[k].x - os[CHAINS[1]].x, os[k].y - os[CHAINS[1]].y, os[k].radius>>]

OrgansApart(os) ==
    \A a, b \in DOMAIN os :
        a /= b => CentreDist(os[a], os[b]) >= OrganMinDist(os[a], os[b]) - Tolerance

\* C15: with constant member counts, repeated steps eventually bring every two organs
\* to their minimum distance.  A step that leaves the organs' relative positions and
\* radii as they were is repeated by every later step with the same dt, so it can
\* only happen when no two organs overlap.
C15_OverlapResolved ==
    [][(frame' = frame + 1 /\ Relative(organs') = Relative(organs)) => OrgansApart(organs')]_vars


Ignored(event) ==
    \/ event.chain \notin CHAIN_MAP
    \/ event.type = "new-pair" /\ \E i \in CellIndices : cells[i].pairAddress = event.pairAddress
    \/ event.type = "pair-update"
         /\ \A i \in CellIndices : cells[i].pairAddress /= event.pairAddress

\* C22: no two live cells share a pairAddress, hence none share an id; and an
\* event of a chain that is not configured, a new-pair event whose pairAddress
\* a live cell of any chain has, and a pair-update of an unknown pairAddress each
\* leave the cell list as it is.
C22_PairAddressUnique ==
    /\ \A i, j \in CellIndices :
          i /= j => /\ cells[i].pairAddress /= cells[j].pairAddress
                    /\ cells[i].id /= cells[j].id
    /\ \A event \in FeedEvents, d \in FeedDraws :
          Ignored(event) => handleEvent(cells, organs, event, d, now) = cells

\* events have been delivered while a pair announced on two chains is live on one
\* of them, next to a second cell: every kind of ignored event is at hand
C22_Witness ==
    /\ lastOp = "event"
    /\ Len(cells) = 2
    /\ \E i \in CellIndices : cells[i].pairAddress = "0xa" /\ cells[i].chain = CHAINS[3]
    /\ \E event \in FeedEvents :
          /\ event.type = "new-pair"
          /\ event.chain = CHAINS[1]
          /\ event.pairAddress = "0xa"
    /\ \E event \in FeedEvents : event.chain \notin CHAIN_MAP /\ Ignored(event)
    /\ \E event \in FeedEvents :
          event.chain \in CHAIN_MAP /\ event.type = "pair-update" /\ Ignored(event)


\* C23: once an enqueue has failed (alive is false), no stream event and no
\* heartbeat is enqueued any more on that connection, and both the heartbeat
\* timer and the update-subscription timer are eventually cleared, whatever the
\* order of upstream callbacks and timer ticks.
C23_DeadConnectionQuiet ==
    /\ [][~route.alive => /\ route'.attempts = route.attempts
                          /\ route'.enqueued = route.enqueued
                          /\ ~route'.alive]_vars
    /\ (~route.alive) ~> (~route.heartbeat /\ ~route.updateInterval)

\* a stream event's enqueue failed after chunks had been sent, the update timer has
\* found alive false and cleared itself, and the heartbeat timer is still to fire
C23_Witness ==
    /\ ~route.alive
    /\ route.enqueued >= 1
    /\ route.attempts = route.enqueued + 1
    /\ route.heartbeat
    /\ ~route.updateInterval

====
